---- MODULE Spec2Model ----
(***************************************************************************)
(* Model of FSLtoNIDMExporter (nidmfsl/fsl_exporter/fsl_exporter.py): the  *)
(* parse of a FEAT result directory into model fittings, contrasts and     *)
(* inferences.  One action per assembler (_find_model_fitting,             *)
(* _find_contrasts, _find_inferences); the helpers they call are operators.*)
(***************************************************************************)
EXTENDS Integers, Sequences, FiniteSets, TLC

\* ---------------------------------------------------------------- bounds
\* largest number of analysis directories (cope*.feat) of a second level
MaxDirs == 2
\* largest statistic number N of a thresh_zstatN / thresh_zfstatN file
MaxStat == 2
\* largest number of excursion-set files found in one analysis directory
MaxExc == 2
\* largest number of regressors (pe<N> files, weights of a contrast)
MaxEV == 2
\* largest cluster index of a cluster / peak table
MaxClusterId == 2
\* largest number of rows of a peak table
MaxPeakRows == 5
\* number of voxels of a variance map
MaxVoxels == 2
\* largest number of onset files and of rows of an onset file
MaxOnsetFiles == 2
MaxOnsetRows == 2
\* largest number of exports already made into the FEAT directory
MaxExports == 3

VARIABLES
    first_level,            \* self.first_level
    nidm_dirs,              \* glob of nidm* in the FEAT directory, in glob order
    export_dir,             \* self.export_dir
    analysis_dirs,          \* self.analysis_dirs (list of directories)
    exc_sets,               \* per directory: glob of thresh_z*.nii.gz, in glob order
    pe_files,               \* per directory: os.listdir of stats/pe<N>.nii.gz
    design,                 \* the values read from design.fsf (self.design_txt)
    feat_post_log,          \* self.feat_post_log (text of logs/feat4_post or None)
    tables,                 \* per directory: the cluster / peak tables on disk
    smoothness,             \* per directory: stats/smoothness and logs/feat3_stats
    onsets,                 \* the onset files design.fsf names: their rows of durations
    disk,                   \* per directory: the variance maps of the stats directory
    model_fittings,         \* self.model_fittings
    contrasts,              \* self.contrasts
    contrast_names_by_num,  \* self.contrast_names_by_num
    inferences,             \* self.inferences
    written,                \* files written into the input directory tree
    smoothest_calls,        \* number of runs of the external smoothness utility
    error,                  \* the exception that ended the parse, "" if none
    pc                      \* position of parse()

inputs == <<nidm_dirs, first_level, analysis_dirs, exc_sets, pe_files, design,
            feat_post_log, tables, smoothness, onsets>>
vars == <<nidm_dirs, export_dir, first_level, analysis_dirs, exc_sets, pe_files, design,
          feat_post_log, tables, smoothness, onsets, disk, model_fittings,
          contrasts, contrast_names_by_num, inferences, written,
          smoothest_calls, error, pc>>

\* ------------------------------------------------------- Python values
\* A str holding the decimal digits of n, and the int n: equal only when
\* both the type and the value agree ('1' == 1 is False).
PyStr(n) == [t |-> "str", v |-> n]
PyInt(n) == [t |-> "int", v |-> n]
PyEq(a, b) == a.t = b.t /\ a.v = b.v
\* a Python bool as a value that == can compare with a str
PyBoolean(b) == [t |-> "bool", v |-> b]

\* None and a present value (an optional is a sequence of length 0 or 1)
None == <<>>
Some(x) == <<x>>
IsNone(o) == Len(o) = 0

\* Identifier given by the export library to a newly constructed object;
\* one per construction: the kind of object and the place that built it.
NewId(kind, site) == [kind |-> kind, site |-> site]

\* os.path.join(directory, [stats,] base + N + extension)
Path(dir, sub, base, num) == [dir |-> dir, sub |-> sub, base |-> base, num |-> num]

\* dict.setdefault(key, list()).append(value)
SetDefaultAppend(dct, key, value) ==
    IF key \in DOMAIN dct
    THEN [dct EXCEPT ![key] = Append(@, value)]
    ELSE [k \in DOMAIN dct \cup {key} |-> IF k = key THEN <<value>> ELSE dct[k]]

\* dict[key] = value
SetItem(dct, key, value) ==
    [k \in DOMAIN dct \cup {key} |-> IF k = key THEN value ELSE dct[k]]

EmptyDict == [k \in {} |-> <<>>]

Range(s) == {s[i] : i \in 1..Len(s)}

\* all sequences over S of length at most n
RECURSIVE SeqsUpTo(_, _)
SeqsUpTo(S, n) ==
    IF n = 0 THEN {<<>>} ELSE SeqsUpTo(S, n - 1) \cup [1..n -> S]

\* sequences without repetition over S, of length at most n
UniqueSeqs(S, n) ==
    {q \in SeqsUpTo(S, n) : \A i, j \in 1..Len(q) : i # j => q[i] # q[j]}

\* ------------------------------------------------- _get_design_matrix
\* the number of characters of the decimal digits of n
RECURSIVE NumDigits(_)
NumDigits(n) == IF n < 10 THEN 1 ELSE 1 + NumDigits(n \div 10)

\* bool(x): a str is true when it is not empty, an int when it is not 0
PyBool(a) == IF a.t = "str" THEN NumDigits(a.v) > 0 ELSE a.v # 0

Max(a, b) == IF a >= b THEN a ELSE b
Min(a, b) == IF a <= b THEN a ELSE b

\* np.amax and np.amin of the column of durations of an onset file
RECURSIVE ColumnMax(_, _)
ColumnMax(col, n) == IF n = 1 THEN col[1] ELSE Max(ColumnMax(col, n - 1), col[n])
RECURSIVE ColumnMin(_, _)
ColumnMin(col, n) == IF n = 1 THEN col[1] ELSE Min(ColumnMin(col, n - 1), col[n])

\* lines 480-485: the loop over the onset files; np.loadtxt gives a file of
\* one row (or none) as a one-dimensional array, which aa[:, 2] cannot
\* index. Durations are held in tenths.
RECURSIVE DurationsOfOnsets(_, _)
DurationsOfOnsets(i, st) ==
    IF st.err # "" \/ i > Len(onsets) THEN st
    ELSE IF Len(onsets[i]) < 2
    THEN [st EXCEPT !.err = "IndexError"]
    ELSE DurationsOfOnsets(i + 1,
            [err |-> "",
             max_duration |-> Max(st.max_duration,
                                  ColumnMax(onsets[i], Len(onsets[i]))),
             min_duration |-> Min(st.min_duration,
                                  ColumnMin(onsets[i], Len(onsets[i])))])

\* lines 487-492: the design type of the longest and shortest duration
DesignType(max_duration, min_duration) ==
    IF max_duration <= 10 THEN "EventRelatedDesign"
    ELSE IF min_duration > 10 THEN "BlockBasedDesign"
    ELSE "MixedDesign"

\* lines 499-510: the HRF model of convolve1; no branch binds hrf_model for
\* another value
HrfModel(hrf) ==
    IF hrf = 1 THEN Some("GaussianHRF")
    ELSE IF hrf = 2 THEN Some("GammaHRF")
    ELSE IF hrf = 3 THEN Some("GammaDifferenceHRF")
    ELSE IF hrf = 4 THEN Some("GammaHRB")
    ELSE IF hrf = 5 THEN Some("SineBasisSet")
    ELSE IF hrf = 6 THEN Some("FiniteImpulseResponseHRB")
    ELSE None

\* _search_in_fsf(tempo_deriv_re): the str captured after deriv_yn<ev_num>
HasDerivYn(ev_num) == ev_num \in DOMAIN design.deriv_yn
DerivYn(ev_num) == PyStr(design.deriv_yn[ev_num])

\* lines 534-535: tempo_deriv = bool(self._search_in_fsf(tempo_deriv_re))
TempoDeriv(ev_num) == PyBool(DerivYn(ev_num))

\* lines 526-538: the regressor names, one or two for each evtitle<N> in
\* the order of design.fsf
RECURSIVE RealEv(_, _)
RealEv(i, st) ==
    IF st.err # "" \/ i > Len(design.evtitle) THEN st
    ELSE LET ev_num == design.evtitle[i]
         IN  IF ~HasDerivYn(ev_num)
             THEN [st EXCEPT !.err = "AttributeError"]
             ELSE RealEv(i + 1,
                    [err |-> "",
                     real_ev |-> st.real_ev \o <<[name |-> ev_num, suffix |-> ""]>>
                        \o (IF TempoDeriv(ev_num)
                            THEN <<[name |-> ev_num, suffix |-> "*temporal_derivative"]>>
                            ELSE <<>>)])

\* _get_design_matrix(analysis_dir): the DesignMatrix or the exception raised
GetDesignMatrix(dir) ==
    LET du == DurationsOfOnsets(1, [err |-> "", max_duration |-> 0,
                                    min_duration |-> 36000 * 10])
        ev == RealEv(1, [err |-> "", real_ev |-> <<>>])
        fail(e) == [err |-> e, val |-> None]
    IN  IF first_level /\ du.err # "" THEN fail(du.err)
        ELSE IF first_level /\ IsNone(design.convolve1) THEN fail("AssertionError")
        ELSE IF first_level /\ IsNone(design.paradigm_hp) THEN fail("AssertionError")
        ELSE IF ev.err # "" THEN fail(ev.err)
        ELSE IF first_level /\ IsNone(HrfModel(design.convolve1[1]))
        THEN fail("UnboundLocalError")
        ELSE [err |-> "",
              val |-> Some(
                [image       |-> Path(dir, "", "design", 0),
                 real_ev     |-> ev.real_ev,
                 design_type |-> IF first_level
                                 THEN Some(DesignType(du.max_duration, du.min_duration))
                                 ELSE None,
                 hrf_model   |-> IF first_level THEN HrfModel(design.convolve1[1])
                                 ELSE None,
                 drift_model |-> IF first_level THEN Some(design.paradigm_hp[1])
                                 ELSE None])]

\* --------------------------------------- _get_residual_mean_squares_map
\* sigma2_group + sigma2_sub: the sum of two images, voxel by voxel
ImageSum(a, b) == [v \in 1..Len(a) |-> a[v] + b[v]]

\* nib.save with the sum written over the within-subject variance map
SaveResidualsOverSource(files) ==
    [files EXCEPT !.varcope1 =
        ImageSum(files.mean_random_effects_var1[1], files.varcope1)]

\* lines 589-603: the files of a stats directory after nib.save of the sum
\* of the two variance maps as calculated_sigmasquareds.nii.gz
SaveResiduals(files) ==
    [files EXCEPT !.calculated_sigmasquareds =
        Some(ImageSum(files.mean_random_effects_var1[1], files.varcope1))]

\* the stats directories once the first n directories have been handled
DiskUpTo(n) ==
    [d \in DOMAIN disk |->
        IF ~first_level /\ (\E i \in 1..n : analysis_dirs[i] = d)
        THEN SaveResiduals(disk[d])
        ELSE disk[d]]

\* ------------------------------------------------- _find_model_fitting
\* _get_residual_mean_squares_map: the file the residual mean squares map
\* refers to (first level: the existing sigmasquareds, else the computed one)
ResidualsFile(dir) ==
    IF first_level
    THEN Path(dir, "stats", "sigmasquareds", 0)
    ELSE Path(dir, "stats", "calculated_sigmasquareds", 0)

\* _get_residual_mean_squares_map: files saved by nib.save
ResidualsWritten(dir) ==
    IF first_level THEN {} ELSE {Path(dir, "stats", "calculated_sigmasquareds", 0)}

\* _get_param_estimate_maps: one ParameterEstimateMap per pe<N>.nii.gz of
\* the stats directory, in listing order; penum is the str captured by pe\d+
ParamEstimateMaps(dir) ==
    [i \in 1..Len(pe_files[dir]) |->
        [id   |-> NewId("ParameterEstimateMap", <<dir, pe_files[dir][i]>>),
         file |-> Path(dir, "stats", "pe", pe_files[dir][i]),
         num  |-> PyStr(pe_files[dir][i])]]

\* lines 710-721: _search_in_fsf of 'set fmri(<key>) <digits>' in design.fsf,
\* the entry given as None (absent) or Some(n): the captured text, None when
\* it is absent and return_not_found is set, else the exception of
\* info_search.group on None
SearchInFsf(entry, return_not_found) ==
    IF ~IsNone(entry) THEN [err |-> "", val |-> Some(PyStr(entry[1]))]
    ELSE IF return_not_found THEN [err |-> "", val |-> None]
    ELSE [err |-> "AttributeError", val |-> None]

\* lines 669-708: _get_coordinate_system. standard_space is bool() of the
\* captured text; custom_space is turned into a bool at lines 681-684, so
\* the test "custom_space is not None" of line 686 always takes its first
\* branch, which compares that bool with the str "1"
GetCoordinateSystem ==
    LET space == SearchInFsf(design.regstandard_yn, FALSE)
        standard_space == PyBool(space.val[1])
        found == SearchInFsf(design.alternateReference_yn, TRUE).val
        custom_space ==
            IF ~IsNone(found) THEN PyBoolean(PyEq(found[1], PyStr(1)))
            ELSE PyBoolean(FALSE)
        custom_standard ==
            IF standard_space THEN PyEq(custom_space, PyStr(1)) ELSE FALSE
    IN  IF space.err # "" THEN [err |-> space.err, val |-> ""]
        ELSE [err |-> "",
              val |-> IF ~standard_space \/ first_level
                      THEN "NIDM_SUBJECT_COORDINATE_SYSTEM"
                      ELSE IF ~custom_standard
                      THEN "NIDM_ICBM_MNI152_NON_LINEAR6TH_GENERATION_COORDINATE_SYSTEM"
                      ELSE "NIDM_STANDARDIZED_COORDINATE_SYSTEM"]

\* lines 605-610: self.coord_space and the ResidualMeanSquares built on it
ResidualMeanSquaresMap(dir) ==
    [file        |-> ResidualsFile(dir),
     coord_space |-> [coordinate_system |-> GetCoordinateSystem.val,
                      file |-> ResidualsFile(dir)]]

\* body of the loop of _find_model_fitting: the ModelFitting of one directory
ModelFitting(dir) ==
    [activity        |-> [id |-> NewId("ModelParametersEstimation", <<dir>>)],
     design_matrix   |-> GetDesignMatrix(dir).val[1],
     param_estimates |-> ParamEstimateMaps(dir),
     rms_map         |-> ResidualMeanSquaresMap(dir),
     mask_map        |-> [file |-> Path(dir, "", "mask", 0)]]

RECURSIVE WrittenUpTo(_)
WrittenUpTo(n) ==
    IF n = 0 THEN {} ELSE WrittenUpTo(n - 1) \cup ResidualsWritten(analysis_dirs[n])

\* lines 130-151: the loop over self.analysis_dirs; st holds the exception
\* raised (if any), self.model_fittings and the number of directories whose
\* residuals were saved (nib.save comes before _get_coordinate_system)
RECURSIVE ModelFittingsOfDirs(_, _)
ModelFittingsOfDirs(i, st) ==
    IF st.err # "" \/ i > Len(analysis_dirs) THEN st
    ELSE IF GetDesignMatrix(analysis_dirs[i]).err # ""
    THEN [st EXCEPT !.err = GetDesignMatrix(analysis_dirs[i]).err]
    ELSE IF GetCoordinateSystem.err # ""
    THEN [st EXCEPT !.err = GetCoordinateSystem.err, !.done = i]
    ELSE ModelFittingsOfDirs(i + 1,
            [err |-> "",
             model_fittings |-> SetItem(st.model_fittings, analysis_dirs[i],
                                        ModelFitting(analysis_dirs[i])),
             done |-> i])

FindModelFittingResult ==
    ModelFittingsOfDirs(1, [err |-> "", model_fittings |-> EmptyDict, done |-> 0])

FindModelFitting ==
    /\ pc = "model_fitting"
    /\ \E st \in {FindModelFittingResult} :
           /\ model_fittings' = st.model_fittings
           /\ written' = written \cup WrittenUpTo(st.done)
           /\ disk' = DiskUpTo(st.done)
           /\ IF st.err = ""
              THEN pc' = "contrasts" /\ error' = error
              ELSE pc' = "failed" /\ error' = st.err
    /\ UNCHANGED <<inputs, export_dir, contrasts, contrast_names_by_num,
                   inferences, smoothest_calls>>

\* ----------------------------------------------------- _find_contrasts
\* re 'zf?stat\d+' on an excursion-set file name: the statistic type from
\* the prefix of the match, the number from the rest of it (a str)
StatType(filename) ==
    IF filename.base = "thresh_zstat" THEN "T" ELSE "F"

StatNumOf(filename) == PyStr(filename.num)

\* the index used in exported file names: "_T001" when the directory holds
\* more than one excursion set, "" otherwise
StatNumText(n_exc_sets, stat_type, num) ==
    IF n_exc_sets > 1 THEN <<stat_type, num.v>> ELSE <<>>

\* _search_in_fsf(name_re): the conname_real.<con_num> of design.fsf
HasConName(con_num) == con_num.v \in DOMAIN design.conname_real
ConName(con_num) == design.conname_real[con_num.v]

\* the regular expression (?P<info>-?\d+) on a weight of design.fsf (held in
\* tenths) captures the sign and the digits before the decimal point
CapturedWeight(w10) ==
    IF w10 < 0 THEN 0 - ((0 - w10) \div 10) ELSE w10 \div 10

\* re.findall of the con_real<con_num>.<k> lines, then int() of each entry
ContrastWeightList(con_num) ==
    IF con_num.v \in DOMAIN design.con_real
    THEN [k \in 1..Len(design.con_real[con_num.v]) |->
              CapturedWeight(design.con_real[con_num.v][k])]
    ELSE <<>>

\* the comparison of line 241 by value alone, the str taken for its number
PeNumIsIndexByValue(pe_num, pe_index) == pe_num.v = pe_index

\* line 241: pe_num (the str captured from the file name) == pe_index (int)
PeNumIsIndex(pe_num, pe_index) == PyEq(pe_num, PyInt(pe_index))

\* lines 236-242: the ids of the parameter estimates of one model fitting
\* whose number is pe_index
RECURSIVE PeIdsOfEstimates(_, _, _)
PeIdsOfEstimates(pes, i, pe_index) ==
    IF i > Len(pes) THEN <<>>
    ELSE (IF PeNumIsIndex(pes[i].num, pe_index) THEN <<pes[i].id>> ELSE <<>>)
         \o PeIdsOfEstimates(pes, i + 1, pe_index)

\* line 235: over self.model_fittings.values(), every model fitting
RECURSIVE PeIdsOfModelFittings(_, _, _)
PeIdsOfModelFittings(dirs, j, pe_index) ==
    IF j > Len(dirs) THEN <<>>
    ELSE PeIdsOfEstimates(model_fittings[dirs[j]].param_estimates, 1, pe_index)
         \o PeIdsOfModelFittings(dirs, j + 1, pe_index)

\* the directories that key self.model_fittings, in iteration order
ModelFittingKeys == SelectSeq(analysis_dirs, LAMBDA d : d \in DOMAIN model_fittings)

\* lines 223-246: the tuple of parameter estimate ids of a weight list
RECURSIVE PeIds(_, _)
PeIds(weights, pe_index) ==
    IF pe_index > Len(weights) THEN <<>>
    ELSE (IF weights[pe_index] = 1
          THEN PeIdsOfModelFittings(ModelFittingKeys, 1, pe_index)
          ELSE <<>>)
         \o PeIds(weights, pe_index + 1)

\* lines 172-173: the content of the stats/dof file of a directory
DofOf(dir) == <<"dof", dir>>

\* lines 181-285: the Contrast built for one excursion-set file; mf directory
\* `outer` gives stat_dir and dof, `inner` is the directory of the file
Contrast(outer, inner, filename) ==
    LET stat_type == StatType(filename)
        con_num == StatNumOf(filename)
        stat_num == StatNumText(Len(exc_sets[inner]), stat_type, con_num)
        name == ConName(con_num)
    IN  [con_num       |-> con_num,
         contrast_name |-> name,
         stat_type     |-> stat_type,
         weights       |-> [stat_num |-> stat_num,
                            contrast_weights |-> ContrastWeightList(con_num)],
         estimation    |-> [id |-> NewId("ContrastEstimation",
                                         <<outer, inner, filename.base, filename.num>>),
                            num |-> con_num],
         contrast_map  |-> [file |-> Path(outer, "stats", "cope", con_num.v)],
         std_err_map   |-> [file |-> Path(outer, "stats", "varcope", con_num.v)],
         stat_map      |-> [file |-> Path(outer, "stats",
                                          IF stat_type = "T" THEN "tstat" ELSE "fstat",
                                          con_num.v),
                            dof  |-> DofOf(outer)],
         z_stat_map    |-> [file |-> Path(outer, "stats", "zstat", con_num.v),
                            dof  |-> DofOf(outer)]]

\* lines 180-287: the loop over the excursion sets of directory `inner`;
\* st holds the exception raised (if any), contrasts and contrast_names_by_num
RECURSIVE ContrastsOfFiles(_, _, _, _)
ContrastsOfFiles(outer, inner, k, st) ==
    IF st.err # "" \/ k > Len(exc_sets[inner]) THEN st
    ELSE LET filename == exc_sets[inner][k]
             con_num == StatNumOf(filename)
         IN  IF ~HasConName(con_num)
             THEN [st EXCEPT !.err = "AttributeError"]
             ELSE IF ContrastWeightList(con_num) = <<>>
             THEN [st EXCEPT !.err = "ValueError",
                             !.names = SetItem(st.names, con_num, ConName(con_num))]
             ELSE ContrastsOfFiles(outer, inner, k + 1,
                    [err |-> "",
                     bound |-> TRUE,
                     contrasts |->
                        SetDefaultAppend(st.contrasts,
                            <<model_fittings[outer].activity.id,
                              PeIds(ContrastWeightList(con_num), 1)>>,
                            Contrast(outer, inner, filename)),
                     names |-> SetItem(st.names, con_num, ConName(con_num))])

\* lines 175-179: the inner loop over self.analysis_dirs, which resets
\* `contrasts` to an empty dict for each directory
RECURSIVE ContrastsOfInner(_, _, _)
ContrastsOfInner(outer, i, st) ==
    IF st.err # "" \/ i > Len(analysis_dirs) THEN st
    ELSE ContrastsOfInner(outer, i + 1,
            ContrastsOfFiles(outer, analysis_dirs[i], 1,
                             [st EXCEPT !.contrasts = EmptyDict, !.bound = TRUE]))

\* lines 163-175: the outer loop over self.analysis_dirs
RECURSIVE ContrastsOfOuter(_, _)
ContrastsOfOuter(o, st) ==
    IF st.err # "" \/ o > Len(analysis_dirs) THEN st
    ELSE IF analysis_dirs[o] \notin DOMAIN model_fittings
    THEN [st EXCEPT !.err = "KeyError"]
    ELSE ContrastsOfOuter(o + 1, ContrastsOfInner(analysis_dirs[o], 1, st))

\* _find_contrasts as a whole; `return contrasts` of a name never bound
\* raises UnboundLocalError
FindContrastsResult ==
    LET st == ContrastsOfOuter(1, [err |-> "", bound |-> FALSE,
                                   contrasts |-> EmptyDict,
                                   names |-> contrast_names_by_num])
    IN  IF st.err = "" /\ ~st.bound
        THEN [st EXCEPT !.err = "UnboundLocalError"]
        ELSE st

FindContrasts ==
    /\ pc = "contrasts"
    /\ \E st \in {FindContrastsResult} :
           /\ contrast_names_by_num' = st.names
           /\ IF st.err = ""
              THEN /\ contrasts' = st.contrasts
                   /\ pc' = "inferences"
                   /\ error' = error
              ELSE /\ contrasts' = contrasts
                   /\ pc' = "failed"
                   /\ error' = st.err
    /\ UNCHANGED <<inputs, export_dir, disk, model_fittings, inferences, written,
                   smoothest_calls>>

\* -------------------------------------------------- _get_clusters_peaks
\* number of columns of a cluster table and of a peak table written by the
\* FSL cluster tool (the joined tables are indexed at 24 = 16 + 8, 7 = 5 + 2)
ClusterCols == 16
PeakCols == 5

\* the value in row `row`, column `col` (from 0) of table `kind` of the
\* statistic `num` of a directory; column 0 holds the cluster index
Cell(kind, dir, num, row, col) ==
    [table |-> kind, dir |-> dir, num |-> num, row |-> row, col |-> col]

\* os.path.isfile of a table of the directory tree tbls, and np.loadtxt(..., skiprows=1, ndmin=2) of
\* it: a list of rows, each a function of the column
HasTable(tbls, dir, kind) == ~IsNone(tbls[dir][kind])

LoadTable(tbls, dir, num, kind, ncols) ==
    LET ids == tbls[dir][kind][1]
    IN  [r \in 1..Len(ids) |->
            [c \in 0..(ncols - 1) |->
                IF c = 0 THEN ids[r] ELSE Cell(kind, dir, num, r, c)]]

\* np.column_stack((a, b)) of two tables of ncols columns with as many rows
ColumnStack(a, b, ncols) ==
    [r \in 1..Len(a) |->
        [c \in 0..(2 * ncols - 1) |->
            IF c < ncols THEN a[r][c] ELSE b[r][c - ncols]]]

\* lines 929-935, 951-955, 971-977: the Peak of a row in each branch
PeakOfRow(branch, peak_row, peakIndex, stat_num) ==
    [peak_index    |-> peakIndex,
     x             |-> IF branch = "std" THEN None ELSE Some(peak_row[2]),
     y             |-> IF branch = "std" THEN None ELSE Some(peak_row[3]),
     z             |-> IF branch = "std" THEN None ELSE Some(peak_row[4]),
     x_std         |-> IF branch = "both" THEN Some(peak_row[7])
                       ELSE IF branch = "std" THEN Some(peak_row[2]) ELSE None,
     y_std         |-> IF branch = "both" THEN Some(peak_row[8])
                       ELSE IF branch = "std" THEN Some(peak_row[3]) ELSE None,
     z_std         |-> IF branch = "both" THEN Some(peak_row[9])
                       ELSE IF branch = "std" THEN Some(peak_row[4]) ELSE None,
     equiv_z       |-> peak_row[1],
     cluster_index |-> peak_row[0],
     stat_num      |-> stat_num]

\* the peak index without its restart at a change of cluster index
FirstPeakIndexNoRestart(cluster_id, prev_cluster, peakIndex) ==
    IF peakIndex = 0 THEN 1 ELSE peakIndex

\* lines 923-925: peakIndex restarts at 1 when the cluster index of the row
\* differs from the one of the previous row (peakIndex 0: not yet bound)
FirstPeakIndex(cluster_id, prev_cluster, peakIndex) ==
    IF cluster_id # prev_cluster THEN 1 ELSE peakIndex

\* lines 920-943 (and 945-963, 965-984): the loop over the rows of the peak
\* table; ps holds peaks, prev_cluster and peakIndex
RECURSIVE PeaksOfRows(_, _, _, _, _)
PeaksOfRows(branch, rows, r, stat_num, ps) ==
    IF ps.err # "" \/ r > Len(rows) THEN ps
    ELSE LET cluster_id == rows[r][0]
             peakIndex == FirstPeakIndex(cluster_id, ps.prev_cluster, ps.peakIndex)
         IN  IF peakIndex = 0
             THEN [ps EXCEPT !.err = "UnboundLocalError"]
             ELSE PeaksOfRows(branch, rows, r + 1, stat_num,
                    [err          |-> "",
                     peaks        |-> SetDefaultAppend(ps.peaks, cluster_id,
                                        PeakOfRow(branch, rows[r], peakIndex, stat_num)),
                     prev_cluster |-> cluster_id,
                     peakIndex    |-> peakIndex + 1])

\* lines 914-984: the peaks of one directory grouped by cluster index;
\* peakIndex is what the loops of the directories before left in it
PeaksOfDir(tbls, dir, stat_num, peakIndex) ==
    LET ps0 == [err |-> "", peaks |-> EmptyDict, prev_cluster |-> 0 - 1,
                peakIndex |-> peakIndex]
        peak_table == LoadTable(tbls, dir, stat_num.v, "peak", PeakCols)
        peak_std_table == LoadTable(tbls, dir, stat_num.v, "peak_std", PeakCols)
    IN  IF HasTable(tbls, dir, "peak") /\ HasTable(tbls, dir, "peak_std")
        THEN IF Len(peak_table) # Len(peak_std_table)
             THEN [ps0 EXCEPT !.err = "ValueError"]
             ELSE PeaksOfRows("both", ColumnStack(peak_table, peak_std_table, PeakCols),
                              1, stat_num, ps0)
        ELSE IF HasTable(tbls, dir, "peak")
        THEN PeaksOfRows("vox", peak_table, 1, stat_num, ps0)
        ELSE IF HasTable(tbls, dir, "peak_std")
        THEN PeaksOfRows("std", peak_std_table, 1, stat_num, ps0)
        ELSE ps0

\* the Cluster of a row with the standardized coordinates of the joined
\* tables read at columns 8 to 10, those of the voxel coordinates
ClusterOfRowStdAtVoxelColumns(branch, cluster_row, peaks) ==
    [cluster_num |-> cluster_row[0],
     size        |-> cluster_row[1],
     pFWER       |-> cluster_row[2],
     peaks       |-> peaks,
     x           |-> IF branch = "std" THEN None ELSE Some(cluster_row[8]),
     y           |-> IF branch = "std" THEN None ELSE Some(cluster_row[9]),
     z           |-> IF branch = "std" THEN None ELSE Some(cluster_row[10]),
     x_std       |-> IF branch = "vox" THEN None ELSE Some(cluster_row[8]),
     y_std       |-> IF branch = "vox" THEN None ELSE Some(cluster_row[9]),
     z_std       |-> IF branch = "vox" THEN None ELSE Some(cluster_row[10])]

\* lines 990-1003, 1007-1020, 1023-1036: the Cluster of a row in each branch
ClusterOfRow(branch, cluster_row, peaks) ==
    [cluster_num |-> cluster_row[0],
     size        |-> cluster_row[1],
     pFWER       |-> cluster_row[2],
     peaks       |-> peaks,
     x           |-> IF branch = "std" THEN None ELSE Some(cluster_row[8]),
     y           |-> IF branch = "std" THEN None ELSE Some(cluster_row[9]),
     z           |-> IF branch = "std" THEN None ELSE Some(cluster_row[10]),
     x_std       |-> IF branch = "both" THEN Some(cluster_row[24])
                     ELSE IF branch = "std" THEN Some(cluster_row[8]) ELSE None,
     y_std       |-> IF branch = "both" THEN Some(cluster_row[25])
                     ELSE IF branch = "std" THEN Some(cluster_row[9]) ELSE None,
     z_std       |-> IF branch = "both" THEN Some(cluster_row[26])
                     ELSE IF branch = "std" THEN Some(cluster_row[10]) ELSE None]

\* the peaks of a cluster index with an empty list for an index the peak
\* tables did not list (peaks.get(cluster_id, []))
PeaksOfClusterOrNone(peaks, cluster_id) ==
    IF cluster_id \in DOMAIN peaks
    THEN [err |-> "", val |-> peaks[cluster_id]]
    ELSE [err |-> "", val |-> <<>>]

\* lines 1001-1002: peaks[cluster_id], a KeyError for a cluster index the
\* peak tables did not list
PeaksOfCluster(peaks, cluster_id) ==
    IF cluster_id \in DOMAIN peaks
    THEN [err |-> "", val |-> peaks[cluster_id]]
    ELSE [err |-> "KeyError", val |-> <<>>]

\* lines 989-1003 (and 1006-1020, 1022-1036): the loop over the rows of the
\* cluster table, appending to clusters
RECURSIVE ClustersOfRows(_, _, _, _, _)
ClustersOfRows(branch, rows, r, peaks, cs) ==
    IF cs.err # "" \/ r > Len(rows) THEN cs
    ELSE LET own == PeaksOfCluster(peaks, rows[r][0])
         IN  IF own.err # ""
             THEN [cs EXCEPT !.err = own.err]
             ELSE ClustersOfRows(branch, rows, r + 1, peaks,
                    [cs EXCEPT !.clusters =
                        Append(@, ClusterOfRow(branch, rows[r], own.val))])

\* lines 879-1036: the body of the loop over self.analysis_dirs for one
\* directory; cs holds the exception raised (if any), clusters and peakIndex
ClustersOfDir(tbls, dir, stat_num, cs) ==
    LET ps == PeaksOfDir(tbls, dir, stat_num, cs.peakIndex)
        cluster_table == LoadTable(tbls, dir, stat_num.v, "cluster", ClusterCols)
        cluster_std_table == LoadTable(tbls, dir, stat_num.v, "cluster_std", ClusterCols)
        cs1 == [cs EXCEPT !.peakIndex = ps.peakIndex]
    IN  IF ps.err # ""
        THEN [cs1 EXCEPT !.err = ps.err]
        ELSE IF HasTable(tbls, dir, "cluster") /\ HasTable(tbls, dir, "cluster_std")
        THEN IF Len(cluster_table) # Len(cluster_std_table)
             THEN [cs1 EXCEPT !.err = "ValueError"]
             ELSE ClustersOfRows("both",
                     ColumnStack(cluster_table, cluster_std_table, ClusterCols),
                     1, ps.peaks, cs1)
        ELSE IF HasTable(tbls, dir, "cluster")
        THEN ClustersOfRows("vox", cluster_table, 1, ps.peaks, cs1)
        ELSE IF HasTable(tbls, dir, "cluster_std")
        THEN ClustersOfRows("std", cluster_std_table, 1, ps.peaks, cs1)
        ELSE cs1

\* lines 877-1038: _get_clusters_peaks(stat_num), over every directory of
\* self.analysis_dirs
RECURSIVE ClustersOfDirs(_, _, _, _)
ClustersOfDirs(tbls, i, stat_num, cs) ==
    IF cs.err # "" \/ i > Len(analysis_dirs) THEN cs
    ELSE ClustersOfDirs(tbls, i + 1, stat_num,
                        ClustersOfDir(tbls, analysis_dirs[i], stat_num, cs))

\* _get_clusters_peaks(stat_num) over the tables tbls of the directories
GetClustersPeaksOn(tbls, stat_num) ==
    ClustersOfDirs(tbls, 1, stat_num, [err |-> "", clusters |-> <<>>, peakIndex |-> 0])

\* _get_clusters_peaks(stat_num) over the tables on disk
GetClustersPeaks(stat_num) == GetClustersPeaksOn(tables, stat_num)

\* ------------------------------------- peak and cluster criteria (log)
\* _get_num_peaks: --num=<n>, else -n=<n>, of the post-processing log
GetNumPeaks ==
    IF ~IsNone(feat_post_log)
    THEN IF ~IsNone(feat_post_log[1].num) THEN feat_post_log[1].num
         ELSE IF ~IsNone(feat_post_log[1].n) THEN feat_post_log[1].n
         ELSE None
    ELSE None

\* _get_peak_dist: --peakdist=<d> of the post-processing log, 0.0 otherwise
GetPeakDist ==
    IF ~IsNone(feat_post_log)
    THEN IF ~IsNone(feat_post_log[1].peakdist) THEN feat_post_log[1].peakdist[1]
         ELSE 0
    ELSE 0

\* _get_connectivity without the test of self.feat_post_log: the search in
\* a log that is None raises
GetConnectivityUnguarded ==
    IF ~IsNone(feat_post_log) /\ ~IsNone(feat_post_log[1].connectivity)
    THEN [err |-> "", val |-> feat_post_log[1].connectivity]
    ELSE [err |-> "AttributeError", val |-> None]

\* _get_connectivity: --connectivity=<c> of the post-processing log; the
\* group() of a search that found nothing raises AttributeError
GetConnectivity ==
    IF ~IsNone(feat_post_log)
    THEN IF ~IsNone(feat_post_log[1].connectivity)
         THEN [err |-> "", val |-> feat_post_log[1].connectivity]
         ELSE [err |-> "AttributeError", val |-> None]
    ELSE [err |-> "", val |-> None]

\* ---------------------------------------------------- _get_search_space
\* _get_search_space running smoothest -V a second time when the file it
\* wrote lacks the FWHM lines
GetSearchSpaceRetrying(dir) ==
    LET full == [search_space_file |-> Path(dir, "", "mask", 0),
                 dlh |-> Some(<<"DLH", dir>>),
                 vol_in_voxels |-> Some(<<"VOLUME", dir>>),
                 resel_size_in_voxels |-> Some(<<"RESELS", dir>>),
                 noise_fwhm_in_voxels |-> Some(<<"FWHM_vx", dir>>),
                 noise_fwhm_in_units |-> Some(<<"FWHM_mm", dir>>)]
        plain == [full EXCEPT !.noise_fwhm_in_voxels = None,
                              !.noise_fwhm_in_units = None]
        smoothness_v == Path(dir, "stats", "smoothness_v", 0)
    IN  IF smoothness.verbose
        THEN [err |-> "", val |-> Some(full), calls |-> 0, wrote |-> {}]
        ELSE IF ~smoothness.feat3_stats
        THEN [err |-> "", val |-> Some(plain), calls |-> 0, wrote |-> {}]
        ELSE IF smoothness.recomputed = "verbose"
        THEN [err |-> "", val |-> Some(full), calls |-> 1, wrote |-> {smoothness_v}]
        ELSE [err |-> "AttributeError", val |-> None, calls |-> 2,
              wrote |-> {smoothness_v}]

\* the smoothness file holds the FWHM lines (smoothest -V); otherwise, with
\* no logs/feat3_stats, DLH, VOLUME and RESELS are read alone; otherwise
\* smoothest -V is run once and stats/smoothness_v is read
GetSearchSpace(dir) ==
    LET full == [search_space_file |-> Path(dir, "", "mask", 0),
                 dlh |-> Some(<<"DLH", dir>>),
                 vol_in_voxels |-> Some(<<"VOLUME", dir>>),
                 resel_size_in_voxels |-> Some(<<"RESELS", dir>>),
                 noise_fwhm_in_voxels |-> Some(<<"FWHM_vx", dir>>),
                 noise_fwhm_in_units |-> Some(<<"FWHM_mm", dir>>)]
        plain == [full EXCEPT !.noise_fwhm_in_voxels = None,
                              !.noise_fwhm_in_units = None]
        smoothness_v == Path(dir, "stats", "smoothness_v", 0)
    IN  IF smoothness.verbose
        THEN [err |-> "", val |-> Some(full), calls |-> 0, wrote |-> {}]
        ELSE IF ~smoothness.feat3_stats
        THEN [err |-> "", val |-> Some(plain), calls |-> 0, wrote |-> {}]
        ELSE IF smoothness.recomputed = "verbose"
        THEN [err |-> "", val |-> Some(full), calls |-> 1, wrote |-> {smoothness_v}]
        ELSE [err |-> "AttributeError", val |-> None, calls |-> 1,
              wrote |-> {smoothness_v}]

\* ----------------------------------------------------- _find_inferences
\* re 'cope\d+\.nii\.gz' on the file of the contrast map: its number (a str)
ConNumOfMap(contrast) == PyStr(contrast.contrast_map.file.num)

\* line 334: con_num == stat_num (two str)
ConNumIsStatNum(con_num, stat_num) == PyEq(con_num, stat_num)

\* lines 328-335: over one list of contrasts, con_id becomes the id of the
\* estimation of every contrast that matches, in turn
RECURSIVE ConIdOfList(_, _, _, _)
ConIdOfList(list, i, stat_num, con_id) ==
    IF i > Len(list) THEN con_id
    ELSE ConIdOfList(list, i + 1, stat_num,
            IF ConNumIsStatNum(ConNumOfMap(list[i]), stat_num)
            THEN Some(list[i].estimation.id)
            ELSE con_id)

\* the keys of a dict in its iteration order
RECURSIVE KeysOf(_)
KeysOf(dct) ==
    IF DOMAIN dct = {} THEN <<>>
    ELSE LET k == CHOOSE x \in DOMAIN dct : TRUE
         IN  <<k>> \o KeysOf([x \in DOMAIN dct \ {k} |-> dct[x]])

\* lines 326-335: over self.contrasts.values()
RECURSIVE ConIdOfKeys(_, _, _, _)
ConIdOfKeys(keys, j, stat_num, con_id) ==
    IF j > Len(keys) THEN con_id
    ELSE ConIdOfKeys(keys, j + 1, stat_num,
                     ConIdOfList(contrasts[keys[j]], 1, stat_num, con_id))

FindConId(stat_num) == ConIdOfKeys(KeysOf(contrasts), 1, stat_num, None)

\* the height threshold with the test of the corrected threshold written
\* `if` for `elif`: type 1 then also takes the final else
HeightThresholdIfForElif(thresh_type) ==
    [stat_threshold     |-> IF thresh_type = 2 THEN None ELSE Some(design.z_thresh),
     p_corr_threshold   |-> IF thresh_type = 2 THEN Some(design.prob_thresh) ELSE None,
     p_uncorr_threshold |-> IF thresh_type = 1 THEN Some(design.prob_thresh) ELSE None]

\* lines 361-380: the height threshold of a threshold type
HeightThreshold(thresh_type) ==
    [stat_threshold     |-> IF thresh_type = 1 \/ thresh_type = 2 THEN None
                            ELSE Some(design.z_thresh),
     p_corr_threshold   |-> IF thresh_type = 2 THEN Some(design.prob_thresh) ELSE None,
     p_uncorr_threshold |-> IF thresh_type = 1 THEN Some(design.prob_thresh) ELSE None]

\* the extent threshold taken from z_thresh instead of prob_thresh
ExtentThresholdFromZ(thresh_type) ==
    [p_corr |-> IF thresh_type = 1 \/ thresh_type = 2 THEN None
                ELSE Some(design.z_thresh)]

\* lines 366-383: the extent threshold of a threshold type
ExtentThreshold(thresh_type) ==
    [p_corr |-> IF thresh_type = 1 \/ thresh_type = 2 THEN None
                ELSE Some(design.prob_thresh)]

\* line 364: clusters, peaks and their criteria are read for this type
ClusterThresh(thresh_type) == thresh_type = 3

\* lines 344-350: the excursion set descriptor
ExcursionSet(dir, stat_num, stat_num_t) ==
    [file          |-> Path(dir, "", "thresh_zstat", stat_num.v),
     stat_num      |-> stat_num_t,
     visualisation |-> Path(dir, "", "rendered_thresh_zstat", stat_num.v)]

\* lines 307-446: the Inference of one excursion-set file of a directory,
\* or the exception raised on the way
InferenceOf(dir, filename) ==
    LET stat_type == StatType(filename)
        stat_num == StatNumOf(filename)
        stat_num_t == StatNumText(Len(exc_sets[dir]), stat_type, stat_num)
        con_id == FindConId(stat_num)
        thresh_type == design.thresh
        cl == IF ClusterThresh(thresh_type) THEN GetClustersPeaks(stat_num)
              ELSE [err |-> "", clusters |-> <<>>, peakIndex |-> 0]
        conn == IF ClusterThresh(thresh_type) THEN GetConnectivity
                ELSE [err |-> "", val |-> None]
        ss == GetSearchSpace(dir)
        fail(e, w, c) == [err |-> e, con_id |-> None, inference |-> None,
                          wrote |-> w, calls |-> c]
    IN  IF IsNone(con_id) THEN fail("AssertionError", {}, 0)
        ELSE IF stat_num \notin DOMAIN contrast_names_by_num THEN fail("KeyError", {}, 0)
        ELSE IF cl.err # "" THEN fail(cl.err, {}, 0)
        ELSE IF conn.err # "" THEN fail(conn.err, {}, 0)
        ELSE IF IsNone(design.conmask1_1) THEN fail("AssertionError", {}, 0)
        ELSE IF ss.err # "" THEN fail(ss.err, ss.wrote, ss.calls)
        ELSE [err |-> "",
              con_id |-> con_id,
              wrote |-> ss.wrote,
              calls |-> ss.calls,
              inference |-> Some(
                [inference_act |-> [stat_num |-> stat_num,
                                    name |-> contrast_names_by_num[stat_num]],
                 height_thresh |-> HeightThreshold(thresh_type),
                 extent_thresh |-> ExtentThreshold(thresh_type),
                 peak_criteria |-> IF ClusterThresh(thresh_type)
                                   THEN Some([stat_num |-> stat_num,
                                              num_peak |-> GetNumPeaks,
                                              peak_dist |-> GetPeakDist])
                                   ELSE None,
                 clus_criteria |-> IF ClusterThresh(thresh_type)
                                   THEN Some([stat_num |-> stat_num,
                                              connectivity |-> conn.val])
                                   ELSE None,
                 display_mask  |-> IF design.conmask1_1[1] # 0
                                   THEN Some([file |-> Path(0, "", "mask", 0)])
                                   ELSE None,
                 exc_set       |-> ExcursionSet(dir, stat_num, stat_num_t),
                 clusters      |-> IF ClusterThresh(thresh_type)
                                   THEN Some(cl.clusters) ELSE None,
                 search_space  |-> ss.val[1]])]

\* lines 306-446: the loop over the excursion sets of a directory
RECURSIVE InferencesOfFiles(_, _, _)
InferencesOfFiles(dir, k, st) ==
    IF st.err # "" \/ k > Len(exc_sets[dir]) THEN st
    ELSE LET r == InferenceOf(dir, exc_sets[dir][k])
         IN  InferencesOfFiles(dir, k + 1,
                [err |-> r.err,
                 wrote |-> st.wrote \cup r.wrote,
                 calls |-> st.calls + r.calls,
                 inferences |-> IF r.err = ""
                                THEN SetDefaultAppend(st.inferences, r.con_id[1],
                                                      r.inference[1])
                                ELSE st.inferences])

\* lines 298-304: the loop over self.analysis_dirs
RECURSIVE InferencesOfDirs(_, _)
InferencesOfDirs(i, st) ==
    IF st.err # "" \/ i > Len(analysis_dirs) THEN st
    ELSE InferencesOfDirs(i + 1, InferencesOfFiles(analysis_dirs[i], 1, st))

\* _find_inferences with the exception of a file caught and the mapping
\* gathered so far returned
FindInferencesResultCaught ==
    [InferencesOfDirs(1, [err |-> "", wrote |-> {}, calls |-> 0,
                         inferences |-> EmptyDict])
        EXCEPT !.err = ""]

\* lines 291-448: _find_inferences as a whole
FindInferencesResult ==
    InferencesOfDirs(1, [err |-> "", wrote |-> {}, calls |-> 0,
                         inferences |-> EmptyDict])

FindInferences ==
    /\ pc = "inferences"
    /\ \E st \in {FindInferencesResult} :
           /\ written' = written \cup st.wrote
           /\ smoothest_calls' = smoothest_calls + st.calls
           /\ IF st.err = ""
              THEN /\ inferences' = Some(st.inferences)
                   /\ pc' = "done"
                   /\ error' = error
              ELSE /\ inferences' = inferences
                   /\ pc' = "failed"
                   /\ error' = st.err
    /\ UNCHANGED <<inputs, export_dir, disk, model_fittings, contrasts,
                   contrast_names_by_num>>

\* ------------------------------------------------------------- inputs
\* the excursion-set files FEAT can leave in a directory: thresh_zstat<N>
\* for the contrasts, thresh_zfstat1 for an F-test
ExcFileNames ==
    {[base |-> "thresh_zstat", num |-> n] : n \in 1..MaxStat}
    \cup {[base |-> "thresh_zfstat", num |-> 1]}

\* a glob of excursion sets: distinct files, in any order
ExcGlobs == UniqueSeqs(ExcFileNames, MaxExc)

\* the place of a file name in an alphabetical listing of a directory
ExcNameBefore(a, b) ==
    \/ a.base = "thresh_zfstat" /\ b.base = "thresh_zstat"
    \/ a.base = b.base /\ a.num < b.num

\* the globs a file system that lists a directory alphabetically returns
SortedExcGlobs ==
    {q \in ExcGlobs : \A i, j \in 1..Len(q) : i < j => ExcNameBefore(q[i], q[j])}

Ascending(n) == [k \in 1..n |-> k]

\* the weights (in tenths) a design.fsf can give a regressor in a contrast
WeightValues == {0 - 10, 0, 10, 15, 20}

\* design.fsf with one contrast name and one weight list per statistic
\* number: contrast n weighs regressor n by 1.0 and the next by -1.0
DefaultConReal ==
    [n \in 1..MaxStat |->
        [k \in 1..MaxEV |-> IF k = n THEN 10 ELSE IF k = n + 1 THEN 0 - 10 ELSE 0]]

DesignWith(thresh, conmask, con_real) ==
    [thresh       |-> thresh,
     prob_thresh  |-> <<"prob_thresh">>,
     z_thresh     |-> <<"z_thresh">>,
     conmask1_1   |-> Some(conmask),
     conname_real |-> [n \in DOMAIN con_real |-> <<"conname_real", n>>],
     con_real     |-> con_real,
     evtitle      |-> Ascending(MaxEV),
     deriv_yn     |-> [n \in 1..MaxEV |-> 1],
     convolve1    |-> Some(3),
     paradigm_hp  |-> Some(100),
     regstandard_yn        |-> Some(1),
     alternateReference_yn |-> None]

\* logs/feat4_post: absent, or the options of the cluster command it holds
PostLogs ==
    {None,
     Some([num |-> Some(6), n |-> None, peakdist |-> Some(8), connectivity |-> Some(26)]),
     Some([num |-> None, n |-> Some(6), peakdist |-> None, connectivity |-> Some(26)]),
     Some([num |-> None, n |-> None, peakdist |-> None, connectivity |-> None])}

\* stats/smoothness with or without the FWHM lines, logs/feat3_stats present
\* or not, and what smoothest -V then writes
Smoothnesses ==
    {[verbose |-> TRUE, feat3_stats |-> TRUE, recomputed |-> "verbose"],
     [verbose |-> FALSE, feat3_stats |-> FALSE, recomputed |-> "verbose"],
     [verbose |-> FALSE, feat3_stats |-> TRUE, recomputed |-> "verbose"],
     [verbose |-> FALSE, feat3_stats |-> TRUE, recomputed |-> "plain"]}

VerboseSmoothness == [verbose |-> TRUE, feat3_stats |-> TRUE, recomputed |-> "verbose"]

\* the cluster indices of the rows of a cluster table (each cluster once)
\* and of a peak table (several peaks per cluster, in any order)
ClusterIdColumns == UniqueSeqs(1..MaxClusterId, MaxClusterId)
PeakIdColumns == SeqsUpTo(1..MaxClusterId, MaxPeakRows)

\* FEAT writes the standardized table of the clusters (peaks) of the voxel
\* table, row by row: when both files exist their columns of indices agree
BothOrOne(S) ==
    {[vox |-> Some(x), std |-> Some(x)] : x \in S}
    \cup {[vox |-> Some(x), std |-> None] : x \in S}
    \cup {[vox |-> None, std |-> Some(x)] : x \in S}
    \cup {[vox |-> None, std |-> None]}

TablesOf(c, p) ==
    [cluster |-> c.vox, cluster_std |-> c.std, peak |-> p.vox, peak_std |-> p.std]

\* the four tables of a directory, one peak row for a cluster at most
TableSets ==
    {TablesOf(c, p) : c \in BothOrOne(ClusterIdColumns), p \in BothOrOne(ClusterIdColumns)}

\* the cluster indices of a peak column, highest first, each once
RECURSIVE DescendingIds(_, _)
DescendingIds(ids, n) ==
    IF n = 0 THEN <<>>
    ELSE (IF n \in Range(ids) THEN <<n>> ELSE <<>>) \o DescendingIds(ids, n - 1)

\* peak tables of any column of indices, with the voxel cluster table that
\* lists the clusters of these peaks
PeakTableSets ==
    {TablesOf([vox |-> Some(DescendingIds(p, MaxClusterId)), std |-> None],
              [vox |-> IF b = "std" THEN None ELSE Some(p),
               std |-> IF b = "vox" THEN None ELSE Some(p)]) :
        p \in PeakIdColumns, b \in {"both", "vox", "std"}}

\* one onset file of two events that last 0.5 and 1.0
DefaultOnsets == <<<<5, 10>>>>

\* the values of a voxel of a variance map, and the maps of MaxVoxels voxels
VoxelValues == {1, 2}
Images == [1..MaxVoxels -> VoxelValues]
DefaultImage == [v \in 1..MaxVoxels |-> 1]

\* the variance maps of a stats directory before the parse: sigmasquareds
\* at the first level, mean_random_effects_var1 at a higher level, varcope1
\* at both
StatsFiles(level1, group, sub) ==
    [sigmasquareds            |-> IF level1 THEN Some(sub) ELSE None,
     mean_random_effects_var1 |-> IF level1 THEN None ELSE Some(group),
     varcope1                 |-> sub,
     calculated_sigmasquareds |-> None]

NoTables == [cluster |-> None, cluster_std |-> None, peak |-> None, peak_std |-> None]

\* some typical contents of a directory: no table, all four tables, voxel
\* tables only, and a cluster table whose second cluster has no peak
TableMenu ==
    {NoTables,
     [cluster |-> Some(<<2, 1>>), cluster_std |-> Some(<<2, 1>>),
      peak |-> Some(<<2, 2, 1>>), peak_std |-> Some(<<2, 2, 1>>)],
     [cluster |-> Some(<<1>>), cluster_std |-> None,
      peak |-> Some(<<1, 1>>), peak_std |-> None],
     [cluster |-> Some(<<2, 1>>), cluster_std |-> None,
      peak |-> Some(<<1>>), peak_std |-> None]}

\* ------------------------------------------------- the export directory
\* the decimal digits of n, most significant first
RECURSIVE Digits(_)
Digits(n) == IF n < 10 THEN <<n>> ELSE Append(Digits(n \div 10), n % 10)

\* "{0:0>4}".format(n): the digits of n, padded with 0 on the left to 4
RECURSIVE PadLeft(_)
PadLeft(text) == IF Len(text) >= 4 THEN text ELSE PadLeft(<<0>> \o text)
Format04(n) == PadLeft(Digits(n))

\* int() of a text of decimal digits
RECURSIVE IntOfDigits(_)
IntOfDigits(text) ==
    IF text = <<>> THEN 0
    ELSE 10 * IntOfDigits(SubSeq(text, 1, Len(text) - 1)) + text[Len(text)]

\* the directory 'nidm' (no suffix) or 'nidm_<suffix>' of the FEAT directory
NidmDir(suffix) == [base |-> "nidm", suffix |-> suffix]

\* lines 48-59: the export directory chosen from the glob of nidm*; only
\* the last element of the listing is looked at
ExportDir(dirs) ==
    IF dirs # <<>>
    THEN LET last == dirs[Len(dirs)]
             export_dir_num ==
                 IF last = NidmDir(<<>>) THEN 1
                 ELSE IntOfDigits(last.suffix) + 1
         IN  NidmDir(Format04(export_dir_num))
    ELSE NidmDir(<<>>)

\* the state after the constructor and the first lines of parse()
InitState ==
    /\ export_dir = ExportDir(nidm_dirs)
    /\ model_fittings = EmptyDict
    /\ contrasts = EmptyDict
    /\ contrast_names_by_num = EmptyDict
    /\ inferences = None
    /\ written = {}
    /\ smoothest_calls = 0
    /\ error = ""
    /\ pc = "model_fitting"

\* a first level has the FEAT directory as its one analysis directory, a
\* higher level the cope*.feat directories found
DirLists(level1) ==
    IF level1 THEN {<<1>>} ELSE {Ascending(n) : n \in 0..MaxDirs}

\* analyses of one or several directories, each with its excursion sets
\* listed alphabetically
Init ==
    /\ first_level \in BOOLEAN
    /\ analysis_dirs \in DirLists(first_level)
    /\ exc_sets \in [Range(analysis_dirs) -> SortedExcGlobs]
    /\ pe_files = [d \in Range(analysis_dirs) |-> Ascending(MaxEV)]
    /\ design = DesignWith(1, 0, DefaultConReal)
    /\ feat_post_log = None
    /\ tables = [d \in Range(analysis_dirs) |-> NoTables]
    /\ smoothness = VerboseSmoothness
    /\ onsets = DefaultOnsets
    /\ disk = [d \in Range(analysis_dirs) |->
                  StatsFiles(first_level, DefaultImage, DefaultImage)]
    /\ nidm_dirs = <<>>
    /\ InitState

\* analyses of one directory under every threshold type, log and smoothness
InitThresh ==
    /\ first_level \in BOOLEAN
    /\ analysis_dirs = <<1>>
    /\ exc_sets \in [{1} -> ExcGlobs]
    /\ pe_files = [d \in {1} |-> Ascending(MaxEV)]
    /\ design \in {DesignWith(t, m, DefaultConReal) : t \in 0..3, m \in {0, 1}}
    /\ feat_post_log \in PostLogs
    /\ tables \in [{1} -> TableMenu]
    /\ smoothness \in Smoothnesses
    /\ onsets = DefaultOnsets
    /\ disk = [d \in Range(analysis_dirs) |->
                  StatsFiles(first_level, DefaultImage, DefaultImage)]
    /\ nidm_dirs = <<>>
    /\ InitState

\* first-level analyses thresholded by cluster, over every set of tables
InitClusters ==
    /\ first_level = TRUE
    /\ analysis_dirs = <<1>>
    /\ exc_sets = [d \in {1} |-> <<[base |-> "thresh_zstat", num |-> 1]>>]
    /\ pe_files = [d \in {1} |-> Ascending(MaxEV)]
    /\ design = DesignWith(3, 0, DefaultConReal)
    /\ feat_post_log = None
    /\ tables \in [{1} -> TableSets]
    /\ smoothness = VerboseSmoothness
    /\ onsets = DefaultOnsets
    /\ disk = [d \in Range(analysis_dirs) |->
                  StatsFiles(first_level, DefaultImage, DefaultImage)]
    /\ nidm_dirs = <<>>
    /\ InitState

\* analyses of one contrast over every weight list and listing of the
\* parameter estimate files
InitWeights ==
    /\ first_level \in BOOLEAN
    /\ analysis_dirs = <<1>>
    /\ exc_sets = [d \in {1} |-> <<[base |-> "thresh_zstat", num |-> 1]>>]
    /\ \E n \in 1..MaxEV :
          /\ pe_files \in [{1} -> {q \in UniqueSeqs(1..n, n) : Len(q) = n}]
          /\ design \in {DesignWith(1, 0, [c \in {1} |-> w]) : w \in [1..n -> WeightValues]}
    /\ feat_post_log = None
    /\ tables = [d \in {1} |-> NoTables]
    /\ smoothness = VerboseSmoothness
    /\ onsets = DefaultOnsets
    /\ disk = [d \in Range(analysis_dirs) |->
                  StatsFiles(first_level, DefaultImage, DefaultImage)]
    /\ nidm_dirs = <<>>
    /\ InitState

Next ==
    \/ FindModelFitting
    \/ FindContrasts
    \/ FindInferences

\* first-level analyses thresholded by cluster, over every peak table
InitPeaks ==
    /\ first_level = TRUE
    /\ analysis_dirs = <<1>>
    /\ exc_sets = [d \in {1} |-> <<[base |-> "thresh_zstat", num |-> 1]>>]
    /\ pe_files = [d \in {1} |-> Ascending(MaxEV)]
    /\ design = DesignWith(3, 0, DefaultConReal)
    /\ feat_post_log = None
    /\ tables \in [{1} -> PeakTableSets]
    /\ smoothness = VerboseSmoothness
    /\ onsets = DefaultOnsets
    /\ disk = [d \in Range(analysis_dirs) |->
                  StatsFiles(first_level, DefaultImage, DefaultImage)]
    /\ nidm_dirs = <<>>
    /\ InitState

\* the durations (in tenths) of an event: 0.5, 1.0 and 4.0
DurationValues == {5, 10, 40}

\* an onset file: one row per event, at least one
OnsetFiles == SeqsUpTo(DurationValues, MaxOnsetRows) \ {<<>>}

\* analyses of one directory over every list of onset files, of regressor
\* titles and of temporal derivative switches
InitDesign ==
    /\ first_level \in BOOLEAN
    /\ analysis_dirs = <<1>>
    /\ exc_sets = [d \in {1} |-> <<[base |-> "thresh_zstat", num |-> 1]>>]
    /\ pe_files = [d \in {1} |-> Ascending(MaxEV)]
    /\ design \in {[DesignWith(1, 0, DefaultConReal)
                       EXCEPT !.evtitle = Ascending(n), !.deriv_yn = dy] :
                    n \in 0..MaxEV, dy \in [1..MaxEV -> {0, 1}]}
    /\ feat_post_log = None
    /\ tables = [d \in {1} |-> NoTables]
    /\ smoothness = VerboseSmoothness
    /\ onsets \in SeqsUpTo(OnsetFiles, MaxOnsetFiles)
    /\ disk = [d \in {1} |-> StatsFiles(first_level, DefaultImage, DefaultImage)]
    /\ nidm_dirs = <<>>
    /\ InitState

\* higher-level analyses thresholded by cluster, each directory with its
\* own excursion sets and tables
InitUnits ==
    /\ first_level = FALSE
    /\ analysis_dirs \in {Ascending(n) : n \in 1..MaxDirs}
    /\ exc_sets \in [Range(analysis_dirs) ->
                       {q \in SortedExcGlobs : q # <<>> /\ q[1].base = "thresh_zstat"}]
    /\ pe_files = [d \in Range(analysis_dirs) |-> Ascending(MaxEV)]
    /\ design = DesignWith(3, 0, DefaultConReal)
    /\ feat_post_log = None
    /\ tables \in [Range(analysis_dirs) -> TableMenu]
    /\ smoothness = VerboseSmoothness
    /\ onsets = DefaultOnsets
    /\ disk = [d \in Range(analysis_dirs) |->
                  StatsFiles(first_level, DefaultImage, DefaultImage)]
    /\ nidm_dirs = <<>>
    /\ InitState

Spec == Init /\ [][Next]_vars
SpecUnits == InitUnits /\ [][Next]_vars
\* analyses of both levels, registered to a standard space or not, with
\* the alternate reference image declared (0 or 1) or left out
InitCoord ==
    /\ first_level \in BOOLEAN
    /\ analysis_dirs = <<1>>
    /\ exc_sets \in [{1} -> ExcGlobs]
    /\ pe_files = [d \in {1} |-> Ascending(MaxEV)]
    /\ design \in {[DesignWith(1, 0, DefaultConReal)
                        EXCEPT !.regstandard_yn = Some(r),
                               !.alternateReference_yn = a] :
                    r \in {0, 1}, a \in {None, Some(0), Some(1)}}
    /\ feat_post_log = None
    /\ tables = [d \in {1} |-> NoTables]
    /\ smoothness = VerboseSmoothness
    /\ onsets = DefaultOnsets
    /\ disk = [d \in Range(analysis_dirs) |->
                  StatsFiles(first_level, DefaultImage, DefaultImage)]
    /\ nidm_dirs = <<>>
    /\ InitState

SpecCoord == InitCoord /\ [][Next]_vars

\* the export directories k earlier exports have left: nidm, nidm_0001, ...
PriorExports(k) ==
    {NidmDir(<<>>) : i \in 1..Min(k, 1)} \cup {NidmDir(Format04(i)) : i \in 1..(k - 1)}

\* the listings the glob can return for them: every order of the k names
NidmListings ==
    UNION {{q \in [1..k -> PriorExports(k)] : Range(q) = PriorExports(k)} :
           k \in 0..MaxExports}

\* analyses exported any number of times before, listed in any order
InitExport ==
    /\ first_level \in BOOLEAN
    /\ analysis_dirs = <<1>>
    /\ exc_sets \in [{1} -> ExcGlobs]
    /\ pe_files = [d \in {1} |-> Ascending(MaxEV)]
    /\ design = DesignWith(1, 0, DefaultConReal)
    /\ feat_post_log = None
    /\ tables = [d \in {1} |-> NoTables]
    /\ smoothness = VerboseSmoothness
    /\ onsets = DefaultOnsets
    /\ disk = [d \in Range(analysis_dirs) |->
                  StatsFiles(first_level, DefaultImage, DefaultImage)]
    /\ nidm_dirs \in NidmListings
    /\ InitState

SpecDesign == InitDesign /\ [][Next]_vars
SpecPeaks == InitPeaks /\ [][Next]_vars
SpecThresh == InitThresh /\ [][Next]_vars
SpecClusters == InitClusters /\ [][Next]_vars
SpecWeights == InitWeights /\ [][Next]_vars

\* ------------------------------------------------------------- claims
\* _find_contrasts has returned and parse() has stored its mapping
ContrastsReturned == pc = "inferences"

\* _find_inferences has returned and parse() has stored its mapping
InferencesReturned == pc = "done"

\* the (key, position) places of the records of a mapping of lists
Places(dct) == UNION {{<<k, i>> : i \in 1..Len(dct[k])} : k \in DOMAIN dct}

AllInferencePlaces == IF IsNone(inferences) THEN {} ELSE Places(inferences[1])
InferenceAt(pl) == inferences[1][pl[1]][pl[2]]
ContrastAt(pl) == contrasts[pl[1]][pl[2]]

\* the ids of the parameter estimates of every directory whose number is a
\* position at which design.fsf gives the contrast the weight 1
WeightOnePeIds(con) ==
    UNION {{model_fittings[d].param_estimates[j].id :
               j \in {i \in 1..Len(model_fittings[d].param_estimates) :
                        \E k \in 1..Len(design.con_real[con]) :
                            /\ design.con_real[con][k] = 10
                            /\ model_fittings[d].param_estimates[i].num.v = k}} :
           d \in DOMAIN model_fittings}

\* C1: the tuple of parameter estimate ids in the key of a contrast holds
\* exactly the ids of the parameter estimates whose number is a position at
\* which the weight of the contrast is literally 1
C1_PeIdsAreWeightOnePositions ==
    ContrastsReturned =>
        \A pl \in Places(contrasts) :
            Range(pl[1][2]) = WeightOnePeIds(ContrastAt(pl).con_num.v)

\* C2: with a threshold type outside {1, 2, 3} _find_inferences raises and
\* builds no Inference
C2_UnsupportedThresholdRaises ==
    (pc = "done" /\ design.thresh \notin {1, 2, 3}) => AllInferencePlaces = {}

\* C3: an Inference built under threshold type 1 or 2 has exactly one of
\* the uncorrected and corrected p-value thresholds (uncorrected for 1,
\* corrected for 2) and no statistic threshold, extent probability, peak
\* criteria, cluster criteria or cluster list
C3_VoxelwiseOneHot ==
    (InferencesReturned /\ design.thresh \in {1, 2}) =>
        \A pl \in AllInferencePlaces :
            LET inf == InferenceAt(pl)
            IN  /\ design.thresh = 1 =>
                    /\ inf.height_thresh.p_uncorr_threshold = Some(design.prob_thresh)
                    /\ IsNone(inf.height_thresh.p_corr_threshold)
                /\ design.thresh = 2 =>
                    /\ inf.height_thresh.p_corr_threshold = Some(design.prob_thresh)
                    /\ IsNone(inf.height_thresh.p_uncorr_threshold)
                /\ IsNone(inf.height_thresh.stat_threshold)
                /\ IsNone(inf.extent_thresh.p_corr)
                /\ IsNone(inf.peak_criteria)
                /\ IsNone(inf.clus_criteria)
                /\ IsNone(inf.clusters)

\* an Inference was built under the corrected voxelwise threshold
C3_Witness ==
    /\ InferencesReturned
    /\ design.thresh = 2
    /\ \E pl \in AllInferencePlaces :
          ~IsNone(InferenceAt(pl).height_thresh.p_corr_threshold)

\* C4: an Inference built under threshold type 3 has the statistic
\* threshold z_thresh and the extent probability prob_thresh, no p-value
\* height threshold, and peak and cluster criteria, with or without the
\* post-processing log
C4_ClusterThresholdFields ==
    (InferencesReturned /\ design.thresh = 3) =>
        \A pl \in AllInferencePlaces :
            LET inf == InferenceAt(pl)
            IN  /\ inf.height_thresh.stat_threshold = Some(design.z_thresh)
                /\ inf.extent_thresh.p_corr = Some(design.prob_thresh)
                /\ IsNone(inf.height_thresh.p_corr_threshold)
                /\ IsNone(inf.height_thresh.p_uncorr_threshold)
                /\ ~IsNone(inf.peak_criteria)
                /\ ~IsNone(inf.clus_criteria)

\* an Inference was built under the cluster threshold without the log
C4_Witness ==
    /\ InferencesReturned
    /\ design.thresh = 3
    /\ IsNone(feat_post_log)
    /\ \E pl \in AllInferencePlaces :
          /\ ~IsNone(InferenceAt(pl).clus_criteria)
          /\ IsNone(InferenceAt(pl).clus_criteria[1].connectivity)

\* the number of excursion-set files over the analysis directories
RECURSIVE ExcSetCount(_)
ExcSetCount(n) ==
    IF n = 0 THEN 0 ELSE ExcSetCount(n - 1) + Len(exc_sets[analysis_dirs[n]])

\* C5: the mapping returned by _find_contrasts holds one Contrast for every
\* (directory, excursion-set file of it) pair, under a key that starts with
\* the id of the model fitting activity of that directory
C5_OneContrastPerUnitAndExcursionSet ==
    (ContrastsReturned /\ Len(analysis_dirs) >= 1) =>
        /\ Cardinality(Places(contrasts)) = ExcSetCount(Len(analysis_dirs))
        /\ \A d \in Range(analysis_dirs) : \A k \in 1..Len(exc_sets[d]) :
              \E pl \in Places(contrasts) :
                  /\ pl[1][1] = model_fittings[d].activity.id
                  /\ ContrastAt(pl).con_num = StatNumOf(exc_sets[d][k])
                  /\ ContrastAt(pl).stat_type = StatType(exc_sets[d][k])

\* the contrasts whose contrast (cope) number is the number in the name of
\* the excursion set an Inference was built for
MatchingContrasts(inf) ==
    {pl \in Places(contrasts) :
        ConNumOfMap(ContrastAt(pl)) = inf.inference_act.stat_num}

\* an excursion set whose number is the contrast number of no Contrast
SomeExcSetUnmatched ==
    \E d \in Range(analysis_dirs) : \E k \in 1..Len(exc_sets[d]) :
        \A pl \in Places(contrasts) :
            ConNumOfMap(ContrastAt(pl)) # StatNumOf(exc_sets[d][k])

\* C6: each Inference is stored under the id of the estimation of the one
\* Contrast whose contrast number is the number of its excursion set; with
\* no such Contrast _find_inferences ends on its assertion and returns no
\* mapping
C6_InferenceUnderTheOneMatchingContrast ==
    /\ InferencesReturned =>
          \A pl \in AllInferencePlaces :
              /\ Cardinality(MatchingContrasts(InferenceAt(pl))) = 1
              /\ \A m \in MatchingContrasts(InferenceAt(pl)) :
                    ContrastAt(m).estimation.id = pl[1]
    /\ (pc \in {"done", "failed"} /\ error # "UnboundLocalError" /\ SomeExcSetUnmatched) =>
          /\ pc = "failed"
          /\ error = "AssertionError"
          /\ IsNone(inferences)

\* the ids of the parameter estimates of the model fitting with this
\* activity id
PeIdsOwnedBy(mf_id) ==
    UNION {{model_fittings[d].param_estimates[i].id :
               i \in 1..Len(model_fittings[d].param_estimates)} :
           d \in {x \in DOMAIN model_fittings : model_fittings[x].activity.id = mf_id}}

\* C7: every parameter estimate id in a key of the mapping returned by
\* _find_contrasts is the id of a parameter estimate of the model fitting
\* whose activity id starts the key
C7_KeyPeIdsOwnedByKeyModelFitting ==
    ContrastsReturned =>
        \A key \in DOMAIN contrasts :
            \A id \in Range(key[2]) : id \in PeIdsOwnedBy(key[1])

\* a key was returned for a contrast that weighs by 1 a regressor of which
\* another directory also has a parameter estimate
C7_Witness ==
    /\ ContrastsReturned
    /\ Len(analysis_dirs) >= 2
    /\ \E pl \in Places(contrasts) :
          \E id \in WeightOnePeIds(ContrastAt(pl).con_num.v) :
              id \notin PeIdsOwnedBy(pl[1][1])

\* the cluster lists of the Inferences returned
ClusterLists ==
    {InferenceAt(pl).clusters[1] :
        pl \in {q \in AllInferencePlaces : ~IsNone(InferenceAt(q).clusters)}}

\* the column of cluster indices of the peak rows read in a directory: the
\* voxel peak table when it exists, else the standardized one
PeakIdColumn(dir) ==
    IF ~IsNone(tables[dir].peak) THEN tables[dir].peak[1]
    ELSE IF ~IsNone(tables[dir].peak_std) THEN tables[dir].peak_std[1]
    ELSE <<>>

\* the position of row r in its run of rows of equal cluster index
RunStart(ids, r) ==
    CHOOSE s \in 1..r :
        /\ \A t \in s..r : ids[t] = ids[r]
        /\ s = 1 \/ ids[s - 1] # ids[r]
RunIndex(ids, r) == r - RunStart(ids, r) + 1

\* the j-th row, in table order, whose cluster index is c
NthRowOf(ids, c, j) ==
    CHOOSE r \in 1..Len(ids) :
        ids[r] = c /\ Cardinality({t \in 1..r : ids[t] = c}) = j

\* C8: the peak index counts the rows from 1, one by one, and restarts at
\* 1 at each row whose cluster index differs from that of the row before
\* (cluster indices 1,1,2,2,2 give peak indices 1,2,1,2,3), whichever peak
\* tables exist
C8_PeakIndexRestartsAtClusterChange ==
    InferencesReturned =>
        \A cls \in ClusterLists : \A i \in 1..Len(cls) :
            LET ids == PeakIdColumn(1)
                c == cls[i].cluster_num
            IN  /\ Len(cls[i].peaks) = Cardinality({r \in 1..Len(ids) : ids[r] = c})
                /\ \A j \in 1..Len(cls[i].peaks) :
                      cls[i].peaks[j].peak_index = RunIndex(ids, NthRowOf(ids, c, j))

\* peak rows of clusters 1,1,2,2,2 were merged to peaks indexed 1,2 and 1,2,3
C8_Witness ==
    /\ InferencesReturned
    /\ tables[1].peak = Some(<<1, 1, 2, 2, 2>>)
    /\ tables[1].peak_std = Some(<<1, 1, 2, 2, 2>>)
    /\ \E cls \in ClusterLists :
          /\ Len(cls) = 2
          /\ [j \in 1..3 |-> cls[1].peaks[j].peak_index] = <<1, 2, 3>>
          /\ [j \in 1..2 |-> cls[2].peaks[j].peak_index] = <<1, 2>>

\* the three coordinates of table `kind` in row r of the cluster tables of
\* the first directory and statistic
CogOf(kind, r) ==
    <<Some(Cell(kind, 1, 1, r, 8)), Some(Cell(kind, 1, 1, r, 9)),
      Some(Cell(kind, 1, 1, r, 10))>>

\* C9: a voxel and a standardized cluster table with the same column of
\* cluster indices merge to one Cluster per index with both sets of
\* coordinates; the same merge without the standardized table gives as
\* many Clusters with the same indices, sizes and voxel coordinates and no
\* standardized coordinate
C9_ClusterTablesMerge ==
    (InferencesReturned /\ ~IsNone(tables[1].cluster) /\ ~IsNone(tables[1].cluster_std)
        /\ tables[1].cluster = tables[1].cluster_std) =>
        \A cls \in ClusterLists :
            LET ids == tables[1].cluster[1]
                alone == GetClustersPeaksOn([tables EXCEPT ![1].cluster_std = None],
                                            PyStr(1))
            IN  /\ Len(cls) = Len(ids)
                /\ \A c \in Range(ids) :
                      Cardinality({r \in 1..Len(cls) : cls[r].cluster_num = c}) = 1
                /\ \A r \in 1..Len(cls) :
                      /\ cls[r].cluster_num = ids[r]
                      /\ <<cls[r].x, cls[r].y, cls[r].z>> = CogOf("cluster", r)
                      /\ <<cls[r].x_std, cls[r].y_std, cls[r].z_std>>
                            = CogOf("cluster_std", r)
                /\ alone.err = ""
                /\ Len(alone.clusters) = Len(cls)
                /\ \A r \in 1..Len(cls) :
                      /\ alone.clusters[r].cluster_num = cls[r].cluster_num
                      /\ alone.clusters[r].size = cls[r].size
                      /\ <<alone.clusters[r].x, alone.clusters[r].y, alone.clusters[r].z>>
                            = <<cls[r].x, cls[r].y, cls[r].z>>
                      /\ IsNone(alone.clusters[r].x_std)
                      /\ IsNone(alone.clusters[r].y_std)
                      /\ IsNone(alone.clusters[r].z_std)

\* both cluster tables, of two clusters, were merged
C9_Witness ==
    /\ InferencesReturned
    /\ ~IsNone(tables[1].cluster)
    /\ tables[1].cluster = tables[1].cluster_std
    /\ \E cls \in ClusterLists : Len(cls) = 2 /\ ~IsNone(cls[2].x_std)

\* a cluster table that is read lists a cluster index of which the peak
\* tables that are read have no row
ClusterWithoutPeakRow ==
    \E d \in Range(analysis_dirs) : \E kind \in {"cluster", "cluster_std"} :
        /\ ~IsNone(tables[d][kind])
        /\ \E c \in Range(tables[d][kind][1]) : c \notin Range(PeakIdColumn(d))

\* C10: every Cluster returned has at least one peak and only peaks of its
\* own cluster index; when a cluster table lists a cluster index without
\* peak row, _get_clusters_peaks raises and no cluster list is returned
C10_ClustersOwnTheirPeaks ==
    /\ InferencesReturned =>
          \A cls \in ClusterLists : \A i \in 1..Len(cls) :
              /\ Len(cls[i].peaks) >= 1
              /\ \A j \in 1..Len(cls[i].peaks) :
                    cls[i].peaks[j].cluster_index = cls[i].cluster_num
    /\ (pc \in {"done", "failed"} /\ design.thresh = 3 /\ ClusterWithoutPeakRow
            /\ \E d \in Range(analysis_dirs) : Len(exc_sets[d]) > 0) =>
          /\ pc = "failed"
          /\ IsNone(inferences)

\* two clusters were returned, each with its peak
C10_Witness ==
    /\ InferencesReturned
    /\ \E cls \in ClusterLists :
          /\ Len(cls) = 2
          /\ \A i \in 1..2 : Len(cls[i].peaks) = 1

\* the excursion-set files found on disk, as paths
DetectedExcFiles ==
    UNION {{Path(d, "", exc_sets[d][k].base, exc_sets[d][k].num) :
               k \in 1..Len(exc_sets[d])} : d \in Range(analysis_dirs)}

\* C11: the ExcursionSet of every Inference refers to a detected
\* excursion-set file, and every detected file, thresh_zfstat<N> as well as
\* thresh_zstat<N>, is the file of the ExcursionSet of an Inference
C11_ExcursionSetReferencesItsFile ==
    InferencesReturned =>
        /\ \A pl \in AllInferencePlaces :
              InferenceAt(pl).exc_set.file \in DetectedExcFiles
        /\ \A f \in DetectedExcFiles :
              \E pl \in AllInferencePlaces : InferenceAt(pl).exc_set.file = f

\* ------------------------------------------- assemblers called directly
\* _find_contrasts called by a caller before _find_model_fitting has run:
\* self.model_fittings holds no directory yet
FindContrastsEarly ==
    /\ pc = "model_fitting"
    /\ \E st \in {FindContrastsResult} :
           /\ contrast_names_by_num' = st.names
           /\ IF st.err = ""
              THEN /\ contrasts' = st.contrasts
                   /\ pc' = "inferences"
                   /\ error' = error
              ELSE /\ contrasts' = contrasts
                   /\ pc' = "failed"
                   /\ error' = st.err
    /\ UNCHANGED <<inputs, export_dir, disk, model_fittings, inferences, written,
                   smoothest_calls>>

\* _find_inferences called by a caller before _find_contrasts has returned:
\* self.contrasts holds no Contrast yet
FindInferencesEarly ==
    /\ pc \in {"model_fitting", "contrasts"}
    /\ \E st \in {FindInferencesResult} :
           /\ written' = written \cup st.wrote
           /\ smoothest_calls' = smoothest_calls + st.calls
           /\ IF st.err = ""
              THEN /\ inferences' = Some(st.inferences)
                   /\ pc' = "done"
                   /\ error' = error
              ELSE /\ inferences' = inferences
                   /\ pc' = "failed"
                   /\ error' = st.err
    /\ UNCHANGED <<inputs, export_dir, disk, model_fittings, contrasts,
                   contrast_names_by_num>>

\* the assemblers in the order of parse(), or called directly in another
\* order
NextAnyOrder ==
    \/ FindModelFitting
    \/ FindContrasts
    \/ FindInferences
    \/ FindContrastsEarly
    \/ FindInferencesEarly

SpecAnyOrder == Init /\ [][NextAnyOrder]_vars

\* no Contrast is returned before every directory has its ModelFitting and
\* no Inference before _find_contrasts has returned
RecordsInOrder ==
    /\ Places(contrasts') # Places(contrasts) =>
          /\ pc = "contrasts"
          /\ DOMAIN model_fittings = Range(analysis_dirs)
    /\ (~IsNone(inferences') /\ Places(inferences'[1]) # {}) =>
          pc = "inferences"

\* a step of an assembler called before its predecessor has completed
EarlyStep == FindContrastsEarly \/ FindInferencesEarly

\* C12: no Contrast is produced before the ModelFittings of all directories
\* are assembled and no Inference before the contrast mapping is complete;
\* an assembler called before its predecessor has completed fails and
\* produces no record
C12_OutOfOrderAssemblerFails ==
    [][/\ RecordsInOrder
       /\ EarlyStep =>
             /\ pc' = "failed"
             /\ contrasts' = contrasts
             /\ inferences' = inferences]_vars

\* C12 as amended: as C12, but _find_inferences called early fails only
\* when some directory holds an excursion set; with none it returns an
\* empty mapping
C12_OutOfOrderAssemblerGivesNoRecord ==
    [][/\ RecordsInOrder
       /\ EarlyStep =>
             /\ contrasts' = contrasts
             /\ \/ pc' = "failed" /\ inferences' = inferences
                \/ /\ \A d \in Range(analysis_dirs) : exc_sets[d] = <<>>
                   /\ inferences' = Some(EmptyDict)
             /\ (\E d \in Range(analysis_dirs) : exc_sets[d] # <<>>) =>
                   pc' = "failed"]_vars

\* _find_inferences, called before _find_contrasts in an analysis with an
\* excursion set, has failed on its assertion
C12_Witness ==
    /\ pc = "failed"
    /\ error = "AssertionError"
    /\ contrasts = EmptyDict
    /\ model_fittings # EmptyDict
    /\ \E d \in Range(analysis_dirs) : exc_sets[d] # <<>>

\* the smoothness file lacks the FWHM lines and smoothest -V, run again,
\* writes a file that lacks them too
SmoothnessUnreadable ==
    ~smoothness.verbose /\ smoothness.feat3_stats /\ smoothness.recomputed # "verbose"

\* C13: without logs/feat4_post the parse does not fail for want of it:
\* _get_num_peaks gives None, _get_peak_dist 0.0 and _get_connectivity None,
\* and under threshold type 3 every Inference is built with these values
C13_AbsentPostLogGivesDefaults ==
    (IsNone(feat_post_log) /\ design.thresh = 3) =>
        /\ GetNumPeaks = None
        /\ GetPeakDist = 0
        /\ GetConnectivity = [err |-> "", val |-> None]
        /\ InferencesReturned =>
              \A pl \in AllInferencePlaces :
                  LET inf == InferenceAt(pl)
                  IN  /\ inf.peak_criteria =
                            Some([stat_num |-> inf.inference_act.stat_num,
                                  num_peak |-> None, peak_dist |-> 0])
                      /\ inf.clus_criteria =
                            Some([stat_num |-> inf.inference_act.stat_num,
                                  connectivity |-> None])
        /\ pc = "failed" =>
              \/ error = "KeyError" /\ ClusterWithoutPeakRow
              \/ error = "AttributeError" /\ SmoothnessUnreadable

\* an Inference was built under the cluster threshold, without the log,
\* with clusters read from the tables
C13_Witness ==
    /\ InferencesReturned
    /\ IsNone(feat_post_log)
    /\ design.thresh = 3
    /\ \E pl \in AllInferencePlaces :
          /\ InferenceAt(pl).peak_criteria[1].peak_dist = 0
          /\ InferenceAt(pl).clusters # Some(<<>>)

\* the durations of all the events of all the onset files
AllDurations == UNION {Range(onsets[i]) : i \in 1..Len(onsets)}

\* the design type the durations call for: event-related when all are at
\* most 1, block-based when all exceed 1, mixed otherwise
DesignTypeOfDurations ==
    IF \A x \in AllDurations : x <= 10 THEN "EventRelatedDesign"
    ELSE IF \A x \in AllDurations : x > 10 THEN "BlockBasedDesign"
    ELSE "MixedDesign"

\* C14: once _find_model_fitting has run, the design matrix of a first
\* level has the design type of the durations of the third column of all
\* the onset files (event-related, block-based or mixed); the design matrix
\* of a higher level has none
C14_DesignTypeFromOnsetDurations ==
    (pc # "model_fitting" /\ AllDurations # {}) =>
        \A d \in Range(analysis_dirs) :
            /\ d \in DOMAIN model_fittings
            /\ model_fittings[d].design_matrix.design_type =
                  IF first_level THEN Some(DesignTypeOfDurations) ELSE None

\* the names _get_design_matrix is to list for the regressor titles from
\* the i-th on: the name, then its temporal derivative when deriv_yn<N> is
\* not 0
RECURSIVE RegressorNames(_)
RegressorNames(i) ==
    IF i > Len(design.evtitle) THEN <<>>
    ELSE <<[name |-> design.evtitle[i], suffix |-> ""]>>
         \o (IF design.deriv_yn[design.evtitle[i]] # 0
             THEN <<[name |-> design.evtitle[i], suffix |-> "*temporal_derivative"]>>
             ELSE <<>>)
         \o RegressorNames(i + 1)

\* C18: the regressor names of a design matrix are, for every evtitle<N>,
\* the name, followed by '<name>*temporal_derivative' if and only if
\* deriv_yn<N> is not 0
C18_DerivativeNameIffDerivYn ==
    \A d \in DOMAIN model_fittings :
        model_fittings[d].design_matrix.real_ev = RegressorNames(1)

\* the one file the parse may derive in each directory of a higher level
DerivedResiduals ==
    {Path(d, "stats", "calculated_sigmasquareds", 0) : d \in Range(analysis_dirs)}

\* C15: over a whole parse the input directory tree receives no file but
\* stats/calculated_sigmasquareds.nii.gz, one per directory of a higher
\* level analysis; a first-level analysis writes no file, whichever branch
\* of the smoothness is taken
C15_InputTreeUnchanged ==
    /\ first_level => written = {}
    /\ written \subseteq DerivedResiduals
    /\ (~first_level /\ pc \in {"contrasts", "inferences", "done"}) =>
          written = DerivedResiduals

\* ------------------------------------------------ a parse run once more
\* a new exporter is constructed on the same FEAT directory and parse() is
\* called again: the state of the object is new, the files are as left
Rerun ==
    /\ pc = "done"
    /\ model_fittings' = EmptyDict
    /\ contrasts' = EmptyDict
    /\ contrast_names_by_num' = EmptyDict
    /\ inferences' = None
    /\ error' = ""
    /\ export_dir' = ExportDir(nidm_dirs)
    /\ pc' = "model_fitting"
    /\ UNCHANGED <<inputs, disk, written, smoothest_calls>>

NextRerun ==
    \/ FindModelFitting
    \/ FindContrasts
    \/ FindInferences
    \/ Rerun

\* analyses of one or two directories over every pair of variance maps
InitResiduals ==
    /\ first_level \in BOOLEAN
    /\ analysis_dirs \in (IF first_level THEN {<<1>>} ELSE {<<1>>, <<1, 2>>})
    /\ exc_sets = [d \in Range(analysis_dirs) |->
                      <<[base |-> "thresh_zstat", num |-> 1]>>]
    /\ pe_files = [d \in Range(analysis_dirs) |-> Ascending(MaxEV)]
    /\ design = DesignWith(1, 0, DefaultConReal)
    /\ feat_post_log = None
    /\ tables = [d \in Range(analysis_dirs) |-> NoTables]
    /\ smoothness = VerboseSmoothness
    /\ onsets = DefaultOnsets
    /\ disk \in [Range(analysis_dirs) ->
                    {StatsFiles(first_level, g, s) : g \in Images, s \in Images}]
    /\ nidm_dirs = <<>>
    /\ InitState

SpecRerun == InitResiduals /\ [][NextRerun]_vars

\* C16: at a higher level _get_residual_mean_squares_map writes, for each
\* directory, the voxel by voxel sum of mean_random_effects_var1 and
\* varcope1 and refers to the written file; run again, it leaves the two
\* source maps as they were and writes the same content; at the first level
\* it refers to the existing sigmasquareds and writes nothing
C16_ResidualsAreSumOfVariances ==
    [][(pc = "model_fitting" /\ pc' = "contrasts") =>
        \A d \in Range(analysis_dirs) :
            /\ disk'[d].mean_random_effects_var1 = disk[d].mean_random_effects_var1
            /\ disk'[d].varcope1 = disk[d].varcope1
            /\ disk'[d].sigmasquareds = disk[d].sigmasquareds
            /\ IF first_level
               THEN /\ disk'[d] = disk[d]
                    /\ written' = written
                    /\ model_fittings'[d].rms_map.file =
                          Path(d, "stats", "sigmasquareds", 0)
               ELSE /\ disk'[d].calculated_sigmasquareds =
                          Some([v \in 1..MaxVoxels |->
                                  disk[d].mean_random_effects_var1[1][v]
                                  + disk[d].varcope1[v]])
                    /\ model_fittings'[d].rms_map.file =
                          Path(d, "stats", "calculated_sigmasquareds", 0)
                    /\ model_fittings'[d].rms_map.file \in written'
                    /\ ~IsNone(disk[d].calculated_sigmasquareds) =>
                          disk'[d].calculated_sigmasquareds
                              = disk[d].calculated_sigmasquareds]_vars

\* a parse is about to run again on two directories that hold the residual
\* maps written by the parse before, of two different source maps
C16_Witness ==
    /\ pc = "model_fitting"
    /\ ~first_level
    /\ Len(analysis_dirs) = 2
    /\ \A d \in Range(analysis_dirs) :
          /\ ~IsNone(disk[d].calculated_sigmasquareds)
          /\ disk[d].mean_random_effects_var1[1] # disk[d].varcope1
          /\ Path(d, "stats", "calculated_sigmasquareds", 0) \in written

\* a failure of _find_inferences that the search space has no part in: a
\* cluster without peak row, or a log without --connectivity
FailsBeforeSearchSpace ==
    /\ design.thresh = 3
    /\ \/ ClusterWithoutPeakRow
       \/ ~IsNone(feat_post_log) /\ IsNone(feat_post_log[1].connectivity)

\* the search spaces of the Inferences returned
SearchSpaces == {InferenceAt(pl).search_space : pl \in AllInferencePlaces}

C19_PeakIndicesAreOneToN ==
    InferencesReturned =>
        \A cls \in ClusterLists : \A i \in 1..Len(cls) :
            /\ Len(cls[i].peaks) =
                  Cardinality({r \in 1..Len(PeakIdColumn(1)) :
                                  PeakIdColumn(1)[r] = cls[i].cluster_num})
            /\ \A j \in 1..Len(cls[i].peaks) : cls[i].peaks[j].peak_index = j

\* the directory whose cluster table a Cluster was read from (its size is
\* the second column of a row of that table)
DirOfCluster(cluster) == cluster.size.dir

\* C20: the clusters attached to an Inference were all read from the
\* tables of the directory its excursion set was found in; those tabulated
\* in another directory for the same statistic number are not among them
C20_ClustersOfTheUnitOnly ==
    InferencesReturned =>
        \A pl \in AllInferencePlaces :
            LET inf == InferenceAt(pl)
            IN  ~IsNone(inf.clusters) =>
                    \A i \in 1..Len(inf.clusters[1]) :
                        DirOfCluster(inf.clusters[1][i]) = inf.exc_set.file.dir

\* ------------------------------------------------ the coordinate system
\* the coordinate system an analysis is to be given: the subject's at the
\* first level or without registration to a standard space, else the generic
\* standardized one when an alternate reference image is used and ICBM
\* MNI152 when it is not (0 or not declared)
CoordinateSystemOfDesign ==
    IF first_level \/ design.regstandard_yn = Some(0)
    THEN "NIDM_SUBJECT_COORDINATE_SYSTEM"
    ELSE IF design.alternateReference_yn = Some(1)
    THEN "NIDM_STANDARDIZED_COORDINATE_SYSTEM"
    ELSE "NIDM_ICBM_MNI152_NON_LINEAR6TH_GENERATION_COORDINATE_SYSTEM"

\* C21: the residual mean squares map of every model fitting is in the
\* subject coordinate system when the analysis is first-level or
\* regstandard_yn is 0, and at a higher level with regstandard_yn 1 in the
\* standardized coordinate system when alternateReference_yn is 1 and in
\* ICBM MNI152 otherwise
C21_CoordinateSystemFollowsDesign ==
    \A d \in DOMAIN model_fittings :
        model_fittings[d].rms_map.coord_space.coordinate_system =
            CoordinateSystemOfDesign

\* ------------------------------------------------ the export directory
SpecExport == InitExport /\ [][NextRerun]_vars

\* the export number of a directory: 0 for 'nidm', n for 'nidm_<n>'
ExportNumber(dir) == IF dir.suffix = <<>> THEN 0 ELSE IntOfDigits(dir.suffix)

\* the highest export number of the existing export directories
HighestExportNumber ==
    CHOOSE n \in {ExportNumber(d) : d \in Range(nidm_dirs)} :
        \A d \in Range(nidm_dirs) : ExportNumber(d) <= n

\* C22: the export directory of the constructor is not one of the existing
\* export directories: it is 'nidm' when there is none, and else 'nidm_'
\* with the number after the highest existing one, in whatever order the
\* listing gives the existing directories
C22_ExportDirIsNew ==
    /\ export_dir \notin Range(nidm_dirs)
    /\ nidm_dirs = <<>> => export_dir = NidmDir(<<>>)
    /\ nidm_dirs # <<>> =>
          export_dir = NidmDir(Format04(HighestExportNumber + 1))

====
